---- MODULE Spec2Model ----
(***************************************************************************)
(* Tenant resource lifecycle of the RAG admin backend: the identity store  *)
(* (users collection), the tenant context cache in front of it, the        *)
(* profile / admin mutators that write the store and invalidate the cache, *)
(* and the scrape / update job handlers with their stale-index signal.     *)
(*                                                                         *)
(* Every request is one task.  A task takes one step per await of its      *)
(* handler: the code between two awaits runs without interleaving on the   *)
(* Node event loop, the store operation awaited takes effect in one step.  *)
(***************************************************************************)
EXTENDS Integers, Sequences, FiniteSets, TLC

\* Number of requests that can be in flight at the same time.  A slot whose
\* request has been answered takes the next request.
MaxTasks == 2

Tasks == 1..MaxTasks

\* The tenants of the run: one admin and one member the admin created.
Ids == {"a1", "u1"}

Emails == {"e1", "e2"}

Names == {"n1", "n2", "n3"}

VARIABLES
    store,     \* users collection: identity -> record
    cache,     \* tenant context cache: identity -> context or NoCtx
    tasks,     \* the requests: slot -> its handler, position and locals
    overlap,   \* history: two requests were in flight at the same time
    hist       \* history of a run without overlap, per identity: "warm" after
               \* a get returned its context, "written" after a mutator then
               \* wrote and invalidated it, "reread" after the next get

vars == <<store, cache, tasks, overlap, hist>>

----------------------------------------------------------------------------
\* Records of the users collection (models/User.js).

UserRecord(id, role, adminId, username, email, rid, vsp) ==
    [exists |-> TRUE, id |-> id, role |-> role, adminId |-> adminId,
     username |-> username, email |-> email,
     resourceId |-> rid, vectorStorePath |-> vsp,
     databaseUri |-> IF rid = "" THEN "" ELSE "db_" \o rid,
     isActive |-> TRUE]

Deleted(rec) == [rec EXCEPT !.exists = FALSE]

\* A collection without the unique index on username.
UsernameIndexOff(s) == TRUE

\* UserSchema.index({ username: 1 }, { unique: true })
UsernameIndex(s) ==
    \A i, j \in DOMAIN s :
        (i # j /\ s[i].exists /\ s[j].exists) => s[i].username # s[j].username

\* The two partial unique indexes on email: { email } among the admins,
\* { email, adminId } among the role='user' records.
EmailIndexes(s) ==
    \A i, j \in DOMAIN s :
        (i # j /\ s[i].exists /\ s[j].exists) =>
            /\ ~(s[i].role = "admin" /\ s[j].role = "admin"
                 /\ s[i].email = s[j].email)
            /\ ~(s[i].role = "user" /\ s[j].role = "user"
                 /\ s[i].adminId = s[j].adminId /\ s[i].email = s[j].email)

\* The unique indexes of the collection: username globally, email among the
\* admins, (email, adminId) among the role='user' records.
UniqueIndexesHold(s) == UsernameIndex(s) /\ EmailIndexes(s)

----------------------------------------------------------------------------
\* Captured process output and truncateLog (controllers/scrapeController).
\* A stream is absent (undefined / null) or a string, a string being the
\* sequence of its characters.

NoStream == [present |-> FALSE, chars |-> <<>>]

Stream(cs) == [present |-> TRUE, chars |-> cs]

maxLength == 8192

Digit(d) == <<"0", "1", "2", "3", "4", "5", "6", "7", "8", "9">>[d + 1]

\* The decimal text of a number, as a template literal renders it.
RECURSIVE Digits(_)
Digits(n) == IF n < 10 THEN <<Digit(n)>> ELSE Digits(n \div 10) \o <<Digit(n % 10)>>

\* `\n... [truncated ${n} chars]`
Marker(n) ==
    <<"\n", ".", ".", ".", " ", "[", "t", "r", "u", "n", "c", "a", "t", "e", "d", " ">>
    \o Digits(n)
    \o <<" ", "c", "h", "a", "r", "s", "]">>

\* A truncateLog that compares with < instead of <=.
truncateLogStrict(value) ==
    IF ~value.present \/ value.chars = <<>> THEN value
    ELSE IF Len(value.chars) < maxLength THEN value
    ELSE Stream(SubSeq(value.chars, 1, maxLength)
                \o Marker(Len(value.chars) - maxLength))

truncateLog(value) ==
    IF ~value.present \/ value.chars = <<>> THEN value
    ELSE IF Len(value.chars) <= maxLength THEN value
    ELSE Stream(SubSeq(value.chars, 1, maxLength)
                \o Marker(Len(value.chars) - maxLength))

----------------------------------------------------------------------------
\* Tenant context cache (services/userContextService).

NoCtx == [userId |-> "", email |-> "", resourceId |-> "", vectorStorePath |-> "",
          databaseUri |-> ""]

BuildContext(rec) ==
    [userId |-> rec.id, email |-> rec.email,
     resourceId |-> rec.resourceId, vectorStorePath |-> rec.vectorStorePath,
     databaseUri |-> rec.databaseUri]

\* A cache hit: an entry is present and the caller did not force a refresh.
\* A get that never finds its entry.
CacheHitNever(c, id, forceRefresh) == FALSE

\* A get that serves its entry to a forced refresh too.
CacheHitIgnoresForce(c, id, forceRefresh) == c[id] # NoCtx

CacheHit(c, id, forceRefresh) == c[id] # NoCtx /\ ~forceRefresh

\* What a store read gives to get: the error it fails with, or "" .
\* A get that does not validate the record it read.
FetchErrorLenient(rec) == IF ~rec.exists THEN "NotFound" ELSE ""

FetchError(rec) ==
    IF ~rec.exists THEN "NotFound"
    ELSE IF rec.resourceId = "" \/ rec.vectorStorePath = "" THEN "ResourceIncomplete"
    ELSE ""

FetchStatus(err) == IF err = "NotFound" THEN 404 ELSE 503

\* A put that drops the entries of the other identities.
CachePutClobbers(c, id, context) ==
    [i \in DOMAIN c |-> IF i = id THEN context ELSE NoCtx]

CachePut(c, id, context) == [c EXCEPT ![id] = context]

invalidateUserTenantContext(c, id) == [c EXCEPT ![id] = NoCtx]

----------------------------------------------------------------------------
\* Tasks.

NoRec == [exists |-> FALSE, id |-> "", role |-> "", adminId |-> "",
          username |-> "", email |-> "", resourceId |-> "", vectorStorePath |-> ""]

NoBody == [field |-> "", value |-> ""]

NoResp == [status |-> 0]

NoSig == [raised |-> FALSE, success |-> FALSE, error |-> ""]

\* The options a job is launched with, none before the launch.
NoOpts == [userId |-> "", resourceId |-> "", vectorStorePath |-> "", mongoUri |-> ""]

IdleTask ==
    [pc |-> "idle", kind |-> "", caller |-> "", target |-> "", body |-> NoBody,
     snap |-> NoRec, ctx |-> NoCtx, job |-> "", stdout |-> NoStream,
     stderr |-> NoStream, http |-> "", sig |-> NoSig, steps |-> <<>>,
     opts |-> NoOpts, resp |-> NoResp]

InFlight(t) == tasks[t].pc \notin {"idle", "done"}

\* A response, once sent, is forgotten at the next step of the run.
Rest == [u \in Tasks |-> IF tasks[u].pc = "done" THEN IdleTask ELSE tasks[u]]

\* Slots are interchangeable: a request takes the first free one.
MayStart(t) ==
    /\ ~InFlight(t)
    /\ \A u \in Tasks : u < t => InFlight(u)

ColdHist == [i \in DOMAIN store |-> "cold"]

\* A request arrives.
Arrive == overlap' = (overlap \/ \E u \in Tasks : InFlight(u))

HistKept == hist' = IF overlap' THEN ColdHist ELSE hist

\* A get for `id` returned (a context when ok, else an error).
GetReturned(id, ok) ==
    hist' = IF overlap' THEN ColdHist
            ELSE [hist EXCEPT ![id] =
                     IF ~ok THEN "cold"
                     ELSE IF @ = "written" THEN "reread" ELSE "warm"]

\* A mutator wrote `id` and invalidated it.
Mutated(id) ==
    hist' = IF overlap' THEN ColdHist
            ELSE [hist EXCEPT ![id] =
                     IF @ \in {"warm", "reread"} THEN "written" ELSE @]

Init ==
    /\ store \in
         { [i \in Ids |->
               IF i = "a1"
               THEN UserRecord("a1", "admin", "", "n1", "e1", "r_a1", "vs_a1")
               ELSE UserRecord("u1", "user", "a1", "n2", "e1", "r_u1", vsp)]
           : vsp \in {"vs_u1"} }
    /\ cache = [i \in Ids |-> NoCtx]
    /\ tasks = [t \in Tasks |-> IdleTask]
    /\ overlap = FALSE
    /\ hist = ColdHist

----------------------------------------------------------------------------
\* Scrape / update job handlers (controllers/scrapeController).

JobKinds == {"scrape", "update"}

\* The role the caller's token carries.
TokenRole(c) == IF c \in {"a1", "a2"} THEN "admin" ELSE "user"

\* How the external job process can end: with a summary, with an error
\* carrying a partial summary, or with an error carrying none.
JobOutcomes == {"ok", "failPartial", "fail"}

JobSummary(o) ==
    IF o = "ok" THEN "s_full" ELSE IF o = "failPartial" THEN "s_part" ELSE "null"

\* What a short run leaves on its output streams.
JobStdout(o) == IF o = "fail" THEN Stream(<<>>) ELSE Stream(<<"p", "1">>)

JobStderr(o) == IF o = "ok" THEN NoStream ELSE Stream(<<"E">>)

\* stdout: truncateLog(result.stdout), stderr: truncateLog(result.stderr)
JobLogs(tk) ==
    [stdout |-> truncateLog(tk.stdout), stderr |-> truncateLog(tk.stderr)]

\* How the POST to the bot service can end: a 2xx answer with status
\* "success", a 2xx answer with another body, a non-2xx status, no answer
\* within 5000 ms, connection refused.
HttpOutcomes == {"success", "unexpected", "non2xx", "timeout", "refused"}

\* refreshBotCache without its catch: a rejection of the POST is thrown on.
refreshBotCacheRethrows(context, h) ==
    IF h = "success" THEN [raised |-> FALSE, success |-> TRUE, error |-> ""]
    ELSE IF h = "unexpected"
         THEN [raised |-> FALSE, success |-> FALSE,
               error |-> "Unexpected response from bot service"]
         ELSE [raised |-> TRUE, success |-> FALSE, error |-> h]

\* The value refreshBotCache returns; raised is TRUE when it throws instead.
\* axios rejects on a non-2xx status, a timeout and a network error, and the
\* catch turns every rejection into a result.
refreshBotCache(context, h) ==
    IF h = "success" THEN [raised |-> FALSE, success |-> TRUE, error |-> ""]
    ELSE IF h = "unexpected"
         THEN [raised |-> FALSE, success |-> FALSE,
               error |-> "Unexpected response from bot service"]
         ELSE [raised |-> FALSE, success |-> FALSE, error |-> h]

\* A guard that looks at resourceId only.
ensureTenantResourcesIdOnly(context) == ~(context.resourceId = "")

\* TRUE when the guard passes, FALSE when it throws (statusCode 503).
ensureTenantResources(context) ==
    ~(context.vectorStorePath = "" \/ context.resourceId = "")

AccessDenied(role, tenantUserId, c) ==
    role = "user" /\ tenantUserId # "" /\ tenantUserId # c

Respond(tk, r) ==
    [tk EXCEPT !.pc = "done", !.resp = r, !.steps = Append(@, "respond"),
               !.snap = NoRec, !.body = NoBody]

JobDenied == [status |-> 403, success |-> FALSE, error |-> "Access denied"]

\* A failure response that carries a cacheRefreshed flag.
JobFailureWithFlag(status, error, summary) ==
    [status |-> status, success |-> FALSE, error |-> error, summary |-> summary,
     cacheRefreshed |-> FALSE]

JobFailure(status, error, summary) ==
    [status |-> status, success |-> FALSE, error |-> error, summary |-> summary]

\* A success response whose success flag is the signal's.
JobSuccessConflated(context, summary, sig) ==
    [status |-> 200, success |-> sig.success, resourceId |-> context.resourceId,
     summary |-> summary, cacheRefreshed |-> sig.success]

JobSuccess(context, summary, sig) ==
    [status |-> 200, success |-> TRUE, resourceId |-> context.resourceId,
     summary |-> summary, cacheRefreshed |-> sig.success]

\* `${prefix}_${resourceId || 'tenant'}_${random}`
buildJobId(prefix, resourceId, random) ==
    <<prefix, IF resourceId = "" THEN "tenant" ELSE resourceId, random>>

\* A handler that refuses a request while a job of the same tenant runs.
DispatchGuarded(tk, context) ==
    LET got == [tk EXCEPT !.ctx = context, !.snap = NoRec,
                          !.steps = Append(Append(@, "context"), "ensure")]
    IN  IF ~ensureTenantResources(context)
        THEN Respond(got, JobFailure(503, "ResourceIncomplete", "null"))
        ELSE IF \E u \in Tasks : /\ tasks[u].pc = "running"
                                 /\ tasks[u].ctx.resourceId = context.resourceId
        THEN Respond(got, JobFailure(409, "JobAlreadyRunning", "null"))
        ELSE [got EXCEPT !.pc = "running", !.steps = Append(@, "launch")]

\* The handler once getUserTenantContext has returned `context`: the guard,
\* then the launch of the job process.
\* scrapeOptions / updaterOptions: the tenant's fields come from the
\* context; the updater's mongoUri is req.body.mongoUri when the body gives
\* one, else the context's databaseUri; the scraper is given none.
JobOptions(tk, context) ==
    [userId |-> context.userId, resourceId |-> context.resourceId,
     vectorStorePath |-> context.vectorStorePath,
     mongoUri |-> IF tk.kind # "update" THEN ""
                  ELSE IF tk.body.value # "" THEN tk.body.value
                  ELSE context.databaseUri]

Dispatch(tk, context) ==
    LET got == [tk EXCEPT !.ctx = context, !.snap = NoRec,
                          !.steps = Append(Append(@, "context"), "ensure")]
    IN  IF ensureTenantResources(context)
        THEN [got EXCEPT !.pc = "running", !.steps = Append(@, "launch"),
                         !.opts = JobOptions(tk, context)]
        ELSE Respond(got, JobFailure(503, "ResourceIncomplete", "null"))

\* startScrape / runUpdater up to the await of getUserTenantContext, for a
\* request whose body has `mongoUri` ("" for none).
JobBeginWith(t, k, c, tenantUserId, mongoUri) ==
    /\ MayStart(t)
    /\ Arrive
    /\ LET userId == IF tenantUserId # "" THEN tenantUserId ELSE c
           tk == [IdleTask EXCEPT !.kind = k, !.caller = c, !.target = userId,
                                  !.body = [field |-> "mongoUri", value |-> mongoUri]]
       IN  IF AccessDenied(TokenRole(c), tenantUserId, c)
           THEN /\ tasks' = [Rest EXCEPT ![t] = Respond(tk, JobDenied)]
                /\ HistKept
           ELSE IF CacheHit(cache, userId, FALSE)
           THEN /\ tasks' = [Rest EXCEPT ![t] =
                       Dispatch([tk EXCEPT !.steps = <<"hit">>], cache[userId])]
                /\ GetReturned(userId, TRUE)
           ELSE /\ tasks' = [Rest EXCEPT ![t] =
                       [tk EXCEPT !.pc = "reading", !.steps = <<"miss">>]]
                /\ HistKept
    /\ UNCHANGED <<store, cache>>

\* A request without mongoUri in its body.
JobBegin(t, k, c, tenantUserId) == JobBeginWith(t, k, c, tenantUserId, "")

\* get without a hit: the read of the identity store.
GetRead(t) ==
    /\ tasks[t].pc = "reading"
    /\ tasks' = [Rest EXCEPT ![t] =
                   [@ EXCEPT !.pc = "fetched", !.snap = store[tasks[t].target],
                             !.steps = Append(@, "read")]]
    /\ UNCHANGED <<store, cache, overlap, hist>>

\* get on a miss returns to the job handler: validation, the cache entry,
\* then the rest of the handler up to its next await.
\* A handler whose catch swallows a failed context resolution.
JobResolveSwallowsError(t) ==
    /\ tasks[t].pc = "fetched"
    /\ tasks[t].kind \in JobKinds
    /\ UNCHANGED <<store, overlap>>
    /\ LET tk == tasks[t]
           err == FetchError(tk.snap)
       IN  IF err # ""
           THEN /\ tasks' = [Rest EXCEPT ![t] = [tk EXCEPT !.pc = "hung"]]
                /\ cache' = cache
                /\ GetReturned(tk.target, FALSE)
           ELSE /\ cache' = CachePut(cache, tk.target, BuildContext(tk.snap))
                /\ tasks' = [Rest EXCEPT ![t] = Dispatch(tk, BuildContext(tk.snap))]
                /\ GetReturned(tk.target, TRUE)

JobResolve(t) ==
    /\ tasks[t].pc = "fetched"
    /\ tasks[t].kind \in JobKinds
    /\ UNCHANGED <<store, overlap>>
    /\ LET tk == tasks[t]
           err == FetchError(tk.snap)
       IN  IF err # ""
           THEN /\ tasks' = [Rest EXCEPT ![t] =
                       Respond(tk, JobFailure(FetchStatus(err), err, "null"))]
                /\ cache' = cache
                /\ GetReturned(tk.target, FALSE)
           ELSE /\ cache' = CachePut(cache, tk.target, BuildContext(tk.snap))
                /\ tasks' = [Rest EXCEPT ![t] = Dispatch(tk, BuildContext(tk.snap))]
                /\ GetReturned(tk.target, TRUE)

\* A handler that sends the signal whatever way the job ended.
JobEndAlwaysSignals(t, o) ==
    /\ tasks[t].pc = "running"
    /\ LET tk == [tasks[t] EXCEPT !.job = o, !.steps = Append(@, "jobdone")]
       IN  tasks' = [Rest EXCEPT ![t] =
             [tk EXCEPT !.pc = "signalling", !.steps = Append(@, "signal")]]
    /\ UNCHANGED <<store, cache, overlap, hist>>

\* runTenantScrape / runTenantUpdater settles, the process having written
\* `out` to its stdout and `err` to its stderr: the result, or the error
\* thrown, carries them.  On success the signal is sent.
JobEndLogged(t, o, out, err) ==
    /\ tasks[t].pc = "running"
    /\ LET tk == [tasks[t] EXCEPT !.job = o, !.stdout = out, !.stderr = err,
                                  !.steps = Append(@, "jobdone")]
       IN  tasks' = [Rest EXCEPT ![t] =
             IF o = "ok"
             THEN [tk EXCEPT !.pc = "signalling", !.steps = Append(@, "signal")]
             ELSE Respond(tk, JobFailure(500, "JobExecutionFailure", JobSummary(o)))]
    /\ UNCHANGED <<store, cache, overlap, hist>>

\* The same with the output of a short run.
JobEnd(t, o) == JobEndLogged(t, o, JobStdout(o), JobStderr(o))

\* A handler that issues the signal a second time when the first has failed.
SignalEndRetries(t, h) ==
    /\ tasks[t].pc = "signalling"
    /\ LET tk == tasks[t]
           sig == refreshBotCache(tk.ctx, h)
           sent == Cardinality({i \in 1..Len(tk.steps) : tk.steps[i] = "signal"})
       IN  tasks' = [Rest EXCEPT ![t] =
             IF ~sig.success /\ sent < 2
             THEN [tk EXCEPT !.steps = Append(@, "signal")]
             ELSE Respond([tk EXCEPT !.http = h, !.sig = sig],
                          JobSuccess(tk.ctx, JobSummary(tk.job), sig)
                          @@ JobLogs(tk))]
    /\ UNCHANGED <<store, cache, overlap, hist>>

\* refreshBotCache settles and the success response is sent.
SignalEnd(t, h) ==
    /\ tasks[t].pc = "signalling"
    /\ LET tk == tasks[t]
           sig == refreshBotCache(tk.ctx, h)
       IN  tasks' = [Rest EXCEPT ![t] =
             IF sig.raised
             THEN Respond([tk EXCEPT !.http = h, !.sig = sig],
                          JobFailure(500, sig.error, "null"))
             ELSE Respond([tk EXCEPT !.http = h, !.sig = sig],
                          JobSuccess(tk.ctx, JobSummary(tk.job), sig)
                          @@ JobLogs(tk))]
    /\ UNCHANGED <<store, cache, overlap, hist>>

----------------------------------------------------------------------------
\* getUserResources (controllers/userController): get with forceRefresh.

ResourcesBegin(t, id) ==
    /\ MayStart(t)
    /\ Arrive
    /\ LET tk == [IdleTask EXCEPT !.kind = "resources", !.target = id]
       IN  IF CacheHit(cache, id, TRUE)
           THEN /\ tasks' = [Rest EXCEPT ![t] =
                       Respond([tk EXCEPT !.ctx = cache[id], !.steps = <<"hit">>],
                               [status |-> 200, tenant |-> cache[id]])]
                /\ GetReturned(id, TRUE)
           ELSE /\ tasks' = [Rest EXCEPT ![t] =
                       [tk EXCEPT !.pc = "reading",
                                  !.steps = IF cache[id] # NoCtx THEN <<"bypass">>
                                            ELSE <<"miss">>]]
                /\ HistKept
    /\ UNCHANGED <<store, cache>>

ResourcesResolve(t) ==
    /\ tasks[t].pc = "fetched"
    /\ tasks[t].kind = "resources"
    /\ UNCHANGED <<store, overlap>>
    /\ LET tk == tasks[t]
           err == FetchError(tk.snap)
       IN  IF err # ""
           THEN /\ tasks' = [Rest EXCEPT ![t] =
                       Respond(tk, [status |-> FetchStatus(err), error |-> err])]
                /\ cache' = cache
                /\ GetReturned(tk.target, FALSE)
           ELSE /\ cache' = CachePut(cache, tk.target, BuildContext(tk.snap))
                /\ tasks' = [Rest EXCEPT ![t] =
                       Respond([tk EXCEPT !.ctx = BuildContext(tk.snap)],
                               [status |-> 200, tenant |-> BuildContext(tk.snap)])]
                /\ GetReturned(tk.target, TRUE)

----------------------------------------------------------------------------
\* Mutators of the users collection (controllers/userController).

EmailBodies == {[field |-> "email", value |-> e] : e \in Emails}

NameBodies == {[field |-> "username", value |-> n] : n \in Names}

\* A handler that copies every field of the request body into `updates`.
ApplyUpdatesAnyField(rec, body) ==
    IF body.field = "email" THEN [rec EXCEPT !.email = body.value]
    ELSE IF body.field = "username" THEN [rec EXCEPT !.username = body.value]
    ELSE IF body.field = "resourceId" THEN [rec EXCEPT !.resourceId = body.value]
    ELSE rec

\* $set of `updates`, which the handlers build from name, email, username,
\* password and isActive only: any other field of the body is left out.
ApplyUpdates(rec, body) ==
    IF body.field = "email" THEN [rec EXCEPT !.email = body.value]
    ELSE IF body.field = "username" THEN [rec EXCEPT !.username = body.value]
    ELSE IF body.field = "isActive" THEN [rec EXCEPT !.isActive = body.value]
    ELSE rec

\* User.findOne({ username, _id: { $ne: id } })
UsernameTaken(s, id, body) ==
    /\ body.field = "username"
    /\ \E j \in DOMAIN s : j # id /\ s[j].exists /\ s[j].username = body.value

\* updateMe's email query: scoped to the admin of a regular user, to the
\* admins for an admin.
EmailTakenForMe(s, id, body) ==
    /\ body.field = "email"
    /\ \E j \in DOMAIN s :
          /\ j # id /\ s[j].exists /\ s[j].email = body.value
          /\ IF s[id].role = "user" /\ s[id].adminId # ""
             THEN s[j].adminId = s[id].adminId
             ELSE s[id].role = "admin" => s[j].role = "admin"

\* updateUser's email query: scoped to adminIdForCheck.
EmailTakenForUser(s, id, body, adminIdForCheck) ==
    /\ body.field = "email"
    /\ \E j \in DOMAIN s :
          /\ j # id /\ s[j].exists /\ s[j].email = body.value
          /\ s[j].adminId = adminIdForCheck

NotOwnedByAdmin(role, rec, c) ==
    role = "admin" /\ rec.adminId # "" /\ rec.adminId # c

\* findByIdAndUpdate(id, { $set: updates }): "null" when no such document,
\* "dup" when a unique index rejects the write, else the store written.
WriteResult(s, id, body) ==
    IF ~s[id].exists THEN "null"
    ELSE IF ~UniqueIndexesHold([s EXCEPT ![id] = ApplyUpdates(s[id], body)]) THEN "dup"
    ELSE "ok"

MeBegin(t, c, body) ==
    /\ MayStart(t)
    /\ Arrive
    /\ HistKept
    /\ LET tk == [IdleTask EXCEPT !.kind = "updateMe", !.caller = c, !.target = c,
                                  !.body = body]
       IN  tasks' = [Rest EXCEPT ![t] =
             IF ~store[c].exists
             THEN Respond(tk, [status |-> 404, error |-> "User not found"])
             ELSE IF EmailTakenForMe(store, c, body)
             THEN Respond(tk, [status |-> 400, field |-> "email"])
             ELSE IF UsernameTaken(store, c, body)
             THEN Respond(tk, [status |-> 400, field |-> "username"])
             ELSE [tk EXCEPT !.pc = "write"]]
    /\ UNCHANGED <<store, cache>>

MeWrite(t) ==
    /\ tasks[t].pc = "write"
    /\ tasks[t].kind = "updateMe"
    /\ LET tk == tasks[t]
           r == WriteResult(store, tk.target, tk.body)
       IN  IF r = "ok"
           THEN /\ store' = [store EXCEPT ![tk.target] = ApplyUpdates(@, tk.body)]
                /\ tasks' = [Rest EXCEPT ![t] = [tk EXCEPT !.pc = "fin"]]
           ELSE /\ store' = store
                /\ tasks' = [Rest EXCEPT ![t] =
                      IF r = "null"
                      THEN Respond(tk, [status |-> 404, error |-> "User not found"])
                      ELSE Respond(tk, [status |-> 400, field |-> tk.body.field])]
    /\ UNCHANGED <<cache, overlap, hist>>

\* updateMe without its invalidateUserTenantContext call.
MeFinishNoInvalidate(t) ==
    /\ tasks[t].pc = "fin"
    /\ tasks[t].kind = "updateMe"
    /\ cache' = cache
    /\ tasks' = [Rest EXCEPT ![t] =
                   Respond(@, [status |-> 200, user |-> store[tasks[t].target]])]
    /\ UNCHANGED <<store, overlap>>
    /\ Mutated(tasks[t].target)

MeFinish(t) ==
    /\ tasks[t].pc = "fin"
    /\ tasks[t].kind = "updateMe"
    /\ cache' = invalidateUserTenantContext(cache, tasks[t].target)
    /\ tasks' = [Rest EXCEPT ![t] =
                   Respond(@, [status |-> 200, user |-> store[tasks[t].target]])]
    /\ UNCHANGED <<store, overlap>>
    /\ Mutated(tasks[t].target)

UserBegin(t, c, id, body) ==
    /\ MayStart(t)
    /\ Arrive
    /\ HistKept
    /\ LET tk == [IdleTask EXCEPT !.kind = "updateUser", !.caller = c,
                                  !.target = id, !.body = body]
           role == TokenRole(c)
           adminIdForCheck == IF role = "admin" THEN c ELSE store[id].adminId
       IN  tasks' = [Rest EXCEPT ![t] =
             IF ~store[id].exists
             THEN Respond(tk, [status |-> 404, error |-> "User not found"])
             ELSE IF NotOwnedByAdmin(role, store[id], c) \/ (role = "user" /\ id # c)
             THEN Respond(tk, [status |-> 403, error |-> "Access denied"])
             ELSE IF EmailTakenForUser(store, id, body, adminIdForCheck)
             THEN Respond(tk, [status |-> 400, field |-> "email"])
             ELSE IF UsernameTaken(store, id, body)
             THEN Respond(tk, [status |-> 400, field |-> "username"])
             ELSE [tk EXCEPT !.pc = "write"]]
    /\ UNCHANGED <<store, cache>>

UserWrite(t) ==
    /\ tasks[t].pc = "write"
    /\ tasks[t].kind = "updateUser"
    /\ LET tk == tasks[t]
           r == WriteResult(store, tk.target, tk.body)
       IN  IF r = "ok"
           THEN /\ store' = [store EXCEPT ![tk.target] = ApplyUpdates(@, tk.body)]
                /\ tasks' = [Rest EXCEPT ![t] = [tk EXCEPT !.pc = "fin"]]
           ELSE /\ store' = store
                /\ tasks' = [Rest EXCEPT ![t] =
                      IF r = "null"
                      THEN Respond(tk, [status |-> 404, error |-> "User not found"])
                      ELSE Respond(tk, [status |-> 500, error |-> "Failed to update user"])]
    /\ UNCHANGED <<cache, overlap, hist>>

\* updateUser without its invalidateUserTenantContext call.
UserFinishNoInvalidate(t) ==
    /\ tasks[t].pc = "fin"
    /\ tasks[t].kind = "updateUser"
    /\ cache' = cache
    /\ tasks' = [Rest EXCEPT ![t] =
                   Respond(@, [status |-> 200, user |-> store[tasks[t].target]])]
    /\ UNCHANGED <<store, overlap>>
    /\ Mutated(tasks[t].target)

UserFinish(t) ==
    /\ tasks[t].pc = "fin"
    /\ tasks[t].kind = "updateUser"
    /\ cache' = invalidateUserTenantContext(cache, tasks[t].target)
    /\ tasks' = [Rest EXCEPT ![t] =
                   Respond(@, [status |-> 200, user |-> store[tasks[t].target]])]
    /\ UNCHANGED <<store, overlap>>
    /\ Mutated(tasks[t].target)

DeleteBegin(t, c, id) ==
    /\ MayStart(t)
    /\ Arrive
    /\ HistKept
    /\ LET tk == [IdleTask EXCEPT !.kind = "deleteUser", !.caller = c, !.target = id]
           role == TokenRole(c)
       IN  tasks' = [Rest EXCEPT ![t] =
             IF c = id
             THEN Respond(tk, [status |-> 400, error |-> "Cannot delete own account"])
             ELSE IF ~store[id].exists
             THEN Respond(tk, [status |-> 404, error |-> "User not found"])
             ELSE IF NotOwnedByAdmin(role, store[id], c) \/ role = "user"
             THEN Respond(tk, [status |-> 403, error |-> "Access denied"])
             ELSE [tk EXCEPT !.pc = "write"]]
    /\ UNCHANGED <<store, cache>>

\* user.deleteOne()
DeleteWrite(t) ==
    /\ tasks[t].pc = "write"
    /\ tasks[t].kind = "deleteUser"
    /\ store' = [store EXCEPT ![tasks[t].target] = Deleted(@)]
    /\ tasks' = [Rest EXCEPT ![t] = [@ EXCEPT !.pc = "fin"]]
    /\ UNCHANGED <<cache, overlap, hist>>

DeleteFinish(t) ==
    /\ tasks[t].pc = "fin"
    /\ tasks[t].kind = "deleteUser"
    /\ cache' = invalidateUserTenantContext(cache, tasks[t].target)
    /\ tasks' = [Rest EXCEPT ![t] =
                   Respond(@, [status |-> 200, message |-> "User deleted successfully"])]
    /\ UNCHANGED <<store, overlap>>
    /\ Mutated(tasks[t].target)

----------------------------------------------------------------------------

\* The run of the cache protocol: requests of every handler, the job process
\* and the bot service answering normally, edits aimed at the member u1.
Next ==
    \/ \E t \in Tasks, k \in JobKinds, c \in Ids, tu \in Ids \cup {""} :
          JobBegin(t, k, c, tu)
    \/ \E t \in Tasks : GetRead(t)
    \/ \E t \in Tasks : JobResolve(t)
    \/ \E t \in Tasks, o \in {"ok"} : JobEnd(t, o)
    \/ \E t \in Tasks, h \in {"success"} : SignalEnd(t, h)
    \/ \E t \in Tasks, id \in Ids : ResourcesBegin(t, id)
    \/ \E t \in Tasks : ResourcesResolve(t)
    \/ \E t \in Tasks, c \in {"u1"}, b \in EmailBodies : MeBegin(t, c, b)
    \/ \E t \in Tasks : MeWrite(t)
    \/ \E t \in Tasks : MeFinish(t)
    \/ \E t \in Tasks, c \in Ids, id \in {"u1"}, b \in EmailBodies : UserBegin(t, c, id, b)
    \/ \E t \in Tasks : UserWrite(t)
    \/ \E t \in Tasks : UserFinish(t)
    \/ \E t \in Tasks, c \in Ids, id \in Ids : DeleteBegin(t, c, id)
    \/ \E t \in Tasks : DeleteWrite(t)
    \/ \E t \in Tasks : DeleteFinish(t)

Spec == Init /\ [][Next]_vars

----------------------------------------------------------------------------
\* The job pipeline on its own: scrape and update requests only, every
\* outcome of the job process and of the signal.  getUserTenantContext is a
\* collaborator of the handlers: the contexts it can hand them are drawn from
\* a bounded set that includes incomplete ones, as the content of the cache
\* the run starts with.

Contexts(id) ==
    { [userId |-> id, email |-> "e1", resourceId |-> rid, vectorStorePath |-> vsp,
       databaseUri |-> IF rid = "" THEN "" ELSE "db_" \o rid]
        : rid \in {"r_" \o id, ""}, vsp \in {"vs_" \o id, ""} }

InitJob ==
    /\ store \in
         { [i \in Ids |->
               IF i = "a1"
               THEN UserRecord("a1", "admin", "", "n1", "e1", "r_a1", "vs_a1")
               ELSE u]
           : u \in { UserRecord("u1", "user", "a1", "n2", "e1", "r_u1", "vs_u1"),
                     UserRecord("u1", "user", "a1", "n2", "e1", "r_u1", ""),
                     Deleted(UserRecord("u1", "user", "a1", "n2", "e1", "r_u1", "vs_u1")) } }
    /\ cache \in [Ids -> {NoCtx} \cup UNION {Contexts(i) : i \in Ids}]
    /\ \A i \in Ids : cache[i] = NoCtx \/ cache[i].userId = i
    /\ cache["a1"] \in {NoCtx, BuildContext(store["a1"])}
    /\ tasks = [t \in Tasks |-> IdleTask]
    /\ overlap = FALSE
    /\ hist = ColdHist

NextJob ==
    \/ \E t \in Tasks, k \in JobKinds, c \in Ids, tu \in Ids \cup {""} :
          JobBegin(t, k, c, tu)
    \/ \E t \in Tasks : GetRead(t)
    \/ \E t \in Tasks : JobResolve(t)
    \/ \E t \in Tasks, o \in JobOutcomes : JobEnd(t, o)
    \/ \E t \in Tasks, h \in HttpOutcomes : SignalEnd(t, h)

SpecJob == InitJob /\ [][NextJob]_vars

\* The same runs under the scheduling of the event loop: the continuation
\* of every settled await is run, the identity store answers every read,
\* the signal's request settles within its timeout, and every job process
\* terminates.
JobFairness ==
    \A t \in Tasks :
        /\ WF_vars(GetRead(t))
        /\ WF_vars(JobResolve(t))
        /\ WF_vars(\E o \in JobOutcomes : JobEnd(t, o))
        /\ WF_vars(\E h \in HttpOutcomes : SignalEnd(t, h))

SpecJobLive == InitJob /\ [][NextJob]_vars /\ JobFairness

----------------------------------------------------------------------------
\* The job handlers with process output of every length around the limit of
\* truncateLog: one request at a time, the job and the signal succeeding.

\* Streams of up to MaxShort characters, and of maxLength - MaxShort up to
\* maxLength + MaxOver characters, filled in MaxFill ways.
MaxShort == 2

MaxOver == 12

MaxFill == 3

LogLengths == (0..MaxShort) \cup ((maxLength - MaxShort)..(maxLength + MaxOver))

Fill(len, p) == [i \in 1..len |-> IF i % p = 0 THEN "b" ELSE "a"]

LogStreams ==
    {NoStream} \cup {Stream(Fill(len, p)) : len \in LogLengths, p \in 1..MaxFill}

InitLog == Init

NextLog ==
    \/ \E t \in {1}, k \in JobKinds, c \in {"a1"}, tu \in {""} : JobBegin(t, k, c, tu)
    \/ \E t \in Tasks : GetRead(t)
    \/ \E t \in Tasks : JobResolve(t)
    \/ \E t \in Tasks, out \in LogStreams,
          err \in {NoStream, Stream(<<>>), Stream(<<"E">>)} :
          JobEndLogged(t, "ok", out, err)
    \/ \E t \in Tasks, h \in {"success"} : SignalEnd(t, h)

SpecLog == InitLog /\ [][NextLog]_vars

----------------------------------------------------------------------------
\* Resource provisioning (services/provisioningService) and the handlers that
\* create and authenticate tenants (controllers/authController,
\* controllers/userController).

\* _ids of the documents created during a run.
NewIds == {"x1", "x2"}

\* A document that was never created.
NoUser(id) ==
    [exists |-> FALSE, id |-> id, role |-> "", adminId |-> "", username |-> "",
     email |-> "", resourceId |-> "", vectorStorePath |-> "", databaseUri |-> "",
     isActive |-> FALSE]

\* The identifiers the generator can come up with.
Rids == {"r_x", "r_y", "r_z"}

\* A username from which no valid identifier can be derived.
Unsluggable == "##"

ResourceFields(rid) ==
    [resourceId |-> rid, vectorStorePath |-> "vs_" \o rid,
     databaseUri |-> "db_" \o rid]

UsedRids(s) == {s[i].resourceId : i \in {j \in DOMAIN s : s[j].exists}} \ {""}

\* What provisionResourcesForUser can return: the fields derived from an
\* identifier no tenant has, a clash being retried with another identifier;
\* no value when it throws.
provisionResourcesForUser(s, username) ==
    IF username = Unsluggable THEN {}
    ELSE {ResourceFields(rid) : rid \in Rids \ UsedRids(s)}

\* A backfill that derives the paths again from the identifier.
ensureUserResourcesRederives(rec, rid) ==
    LET id == IF rec.resourceId = "" THEN rid ELSE rec.resourceId
    IN  [rec EXCEPT !.resourceId = id,
                    !.vectorStorePath = "vs_" \o id,
                    !.databaseUri = "db_" \o id]

\* The record ensureUserResources leaves: the fields that are absent filled,
\* from `rid` when the record has no resourceId, the others as they are.
ensureUserResources(rec, rid) ==
    LET id == IF rec.resourceId = "" THEN rid ELSE rec.resourceId
    IN  [rec EXCEPT !.resourceId = id,
                    !.vectorStorePath = IF @ = "" THEN "vs_" \o id ELSE @,
                    !.databaseUri = IF @ = "" THEN "db_" \o id ELSE @]

\* A collection without the index on resourceId.
ResourceIdUniqueOff(s) == TRUE

\* The unique sparse index on resourceId.
ResourceIdUnique(s) ==
    \A i, j \in DOMAIN s :
        (i # j /\ s[i].exists /\ s[j].exists /\ s[i].resourceId # "")
        => s[i].resourceId # s[j].resourceId

\* doc.save(): "dup" when a unique index rejects the document (code 11000).
SaveResult(s, doc) ==
    LET after == [s EXCEPT ![doc.id] = doc]
    IN  IF UniqueIndexesHold(after) /\ ResourceIdUnique(after) THEN "ok" ELSE "dup"

\* The fields a rejected save can name: err.keyPattern is the key of the
\* index that rejected it.
DupFields(s, doc) ==
    LET after == [s EXCEPT ![doc.id] = doc]
    IN  {f \in {"username", "email", "resourceId"} :
            \/ f = "username" /\ ~UsernameIndex(after)
            \/ f = "email" /\ ~EmailIndexes(after)
            \/ f = "resourceId" /\ ~ResourceIdUnique(after)}

\* The _id of the next new document.
FreeIds ==
    {id \in NewIds : /\ store[id] = NoUser(id)
                     /\ \A u \in Tasks : ~(InFlight(u) /\ tasks[u].target = id)}

NextId == IF "x1" \in FreeIds THEN "x1" ELSE "x2"

NewDoc(draft, id, res) ==
    [draft EXCEPT !.id = id, !.resourceId = res.resourceId,
                  !.vectorStorePath = res.vectorStorePath,
                  !.databaseUri = res.databaseUri]

\* registerUser up to bcrypt.hash: the two findOne queries and their checks.
RegisterBegin(t, username, email) ==
    /\ MayStart(t)
    /\ Arrive
    /\ HistKept
    /\ LET draft == UserRecord("", "admin", "", username, email, "", "")
           tk == [IdleTask EXCEPT !.kind = "register"]
           existingEmail ==
               \E j \in DOMAIN store :
                   /\ store[j].exists /\ store[j].email = email
                   /\ store[j].role = "admin"
           existingUsername ==
               \E j \in DOMAIN store :
                   store[j].exists /\ store[j].username = username
       IN  tasks' = [Rest EXCEPT ![t] =
             IF existingEmail
             THEN Respond(tk, [status |-> 400, field |-> "email"])
             ELSE IF existingUsername
             THEN Respond(tk, [status |-> 400, field |-> "username"])
             ELSE [tk EXCEPT !.pc = "hash", !.snap = draft]]
    /\ UNCHANGED <<store, cache>>

\* createUser up to bcrypt.hash.
CreateBegin(t, c, username, email) ==
    /\ MayStart(t)
    /\ Arrive
    /\ HistKept
    /\ LET draft == UserRecord("", "user", c, username, email, "", "")
           tk == [IdleTask EXCEPT !.kind = "create", !.caller = c]
           existingEmail ==
               \E j \in DOMAIN store :
                   /\ store[j].exists /\ store[j].email = email
                   /\ store[j].adminId = c
           existingUsername ==
               \E j \in DOMAIN store :
                   store[j].exists /\ store[j].username = username
       IN  tasks' = [Rest EXCEPT ![t] =
             IF TokenRole(c) # "admin"
             THEN Respond(tk, [status |-> 403, error |-> "Only administrators"])
             ELSE IF existingEmail
             THEN Respond(tk, [status |-> 400, field |-> "email"])
             ELSE IF existingUsername
             THEN Respond(tk, [status |-> 400, field |-> "username"])
             ELSE [tk EXCEPT !.pc = "hash", !.snap = draft]]
    /\ UNCHANGED <<store, cache>>

\* Handlers that go on to save when provisioning has thrown.
ProvisionStepSavesAnyway(t) ==
    /\ tasks[t].pc = "hash"
    /\ FreeIds # {}
    /\ LET tk == [tasks[t] EXCEPT !.target = NextId,
                                  !.steps = Append(@, "provision")]
           results == provisionResourcesForUser(store, tk.snap.username)
       IN  IF tk.snap.username = Unsluggable
           THEN tasks' = [Rest EXCEPT ![t] =
                   [tk EXCEPT !.pc = "save", !.snap = [@ EXCEPT !.id = tk.target]]]
           ELSE \E res \in results :
                   tasks' = [Rest EXCEPT ![t] =
                      [tk EXCEPT !.pc = "save",
                                 !.snap = NewDoc(@, tk.target, res)]]
    /\ UNCHANGED <<store, cache, overlap, hist>>

\* registerUser / createUser once the hash is there: new User(...), then
\* provisionResourcesForUser, which is not awaited; when it throws the
\* request is answered 500 and nothing is saved, else user.save() is issued.
ProvisionStep(t) ==
    /\ tasks[t].pc = "hash"
    /\ FreeIds # {}
    /\ LET tk == [tasks[t] EXCEPT !.target = NextId,
                                  !.steps = Append(@, "provision")]
           results == provisionResourcesForUser(store, tk.snap.username)
       IN  IF tk.snap.username = Unsluggable
           THEN tasks' = [Rest EXCEPT ![t] =
                   Respond(tk, [status |-> 500,
                                error |-> "Failed to provision user resources"])]
           ELSE \E res \in results :
                   tasks' = [Rest EXCEPT ![t] =
                      [tk EXCEPT !.pc = "save",
                                 !.snap = NewDoc(@, tk.target, res)]]
    /\ UNCHANGED <<store, cache, overlap, hist>>

\* user.save() settles and the request is answered: 201, or 400 from the
\* duplicate-key branch of the catch.
SaveStep(t) ==
    /\ tasks[t].pc = "save"
    /\ LET tk == [tasks[t] EXCEPT !.steps = Append(@, "save")]
           doc == tk.snap
       IN  IF SaveResult(store, doc) = "ok"
           THEN /\ store' = [store EXCEPT ![doc.id] = doc]
                /\ tasks' = [Rest EXCEPT ![t] =
                       Respond(tk, [status |-> 201, user |-> doc])]
           ELSE /\ store' = store
                /\ \E f \in DupFields(store, doc) :
                      tasks' = [Rest EXCEPT ![t] =
                         Respond(tk, [status |-> 400, error |-> "already in use",
                                      field |-> f])]
    /\ UNCHANGED <<cache, overlap, hist>>

LoginTypes == {"admin", "user"}

\* The password of an account; bcrypt.compare(password, user.password) holds
\* for it and for no other.
PasswordOf(rec) == "pw_" \o rec.id

\* A login answered: the response, the request kept for reference.
Answer(tk, r) == [Respond(tk, r) EXCEPT !.body = tk.body]

\* jwt.sign of the payload built from the loaded user.
SignToken(user) ==
    [userId |-> user.id, username |-> user.username, email |-> user.email,
     role |-> user.role]

\* loginType || 'admin', "" being a body without loginType.
ExpectedLoginType(loginType) == IF loginType = "" THEN "admin" ELSE loginType

\* A login that answers with the token as soon as the password matched.
LoginCompareAnswersEarly(t) ==
    /\ tasks[t].pc = "compare"
    /\ LET isMatch == tasks[t].body.password = PasswordOf(tasks[t].snap)
           tk == [tasks[t] EXCEPT !.steps = Append(@, "token")]
       IN  tasks' = [Rest EXCEPT ![t] =
             IF isMatch
             THEN Answer(tk, [status |-> 200, message |-> "Login successful",
                              token |-> SignToken(tk.snap),
                              user |-> tk.snap, before |-> tk.snap])
             ELSE Answer(tasks[t], [status |-> 401,
                                    error |-> "Invalid username or password"])]
    /\ UNCHANGED <<store, cache, overlap, hist>>

\* loginUser up to bcrypt.compare: findOne by username, the login-page
\* checks, the isActive check.
LoginBegin(t, username, loginType, password) ==
    /\ MayStart(t)
    /\ Arrive
    /\ HistKept
    /\ LET found == {j \in DOMAIN store :
                       store[j].exists /\ store[j].username = username}
           expectedLoginType == ExpectedLoginType(loginType)
           tk == [IdleTask EXCEPT !.kind = "login",
                                  !.body = [username |-> username,
                                            loginType |-> loginType,
                                            password |-> password]]
       IN  tasks' = [Rest EXCEPT ![t] =
             IF found = {}
             THEN Answer(tk, [status |-> 401,
                              error |-> "Invalid username or password"])
             ELSE LET user == store[CHOOSE j \in found : TRUE]
                  IN  IF user.role # expectedLoginType
                      THEN Answer(tk, [status |-> 403, error |-> "Access denied"])
                      ELSE IF ~user.isActive
                      THEN Answer(tk, [status |-> 403,
                                       error |-> "Account is inactive"])
                      ELSE [tk EXCEPT !.pc = "compare", !.target = user.id,
                                      !.snap = user]]
    /\ UNCHANGED <<store, cache>>

\* bcrypt.compare settles; on a match the token is signed and
\* ensureUserResources is called.
LoginCompare(t) ==
    /\ tasks[t].pc = "compare"
    /\ LET isMatch == tasks[t].body.password = PasswordOf(tasks[t].snap)
       IN  tasks' = [Rest EXCEPT ![t] =
             IF isMatch
             THEN [tasks[t] EXCEPT !.pc = "ensure", !.steps = Append(@, "token")]
             ELSE Answer(tasks[t], [status |-> 401,
                                    error |-> "Invalid username or password"])]
    /\ UNCHANGED <<store, cache, overlap, hist>>

\* ensureUserResources settles, having filled and saved what the record
\* lacked, and the login is answered; a failure of it ends in the catch.
LoginEnsure(t) ==
    /\ tasks[t].pc = "ensure"
    /\ LET tk == [tasks[t] EXCEPT !.steps = Append(@, "ensure")]
           cur == store[tk.target]
           rids == IF cur.resourceId = "" THEN Rids \ UsedRids(store) ELSE {""}
       IN  IF ~cur.exists
           THEN /\ store' = store
                /\ tasks' = [Rest EXCEPT ![t] =
                       Answer(tk, [status |-> 500,
                                   error |-> "Server error during login"])]
           ELSE \E rid \in rids :
                   LET filled == ensureUserResources(cur, rid)
                   IN  IF SaveResult(store, filled) = "ok"
                       THEN /\ store' = [store EXCEPT ![tk.target] = filled]
                            /\ tasks' = [Rest EXCEPT ![t] =
                                 Answer(tk,
                                        [status |-> 200,
                                         message |-> "Login successful",
                                         token |-> SignToken(tk.snap),
                                         user |-> filled, before |-> cur])]
                       ELSE /\ store' = store
                            /\ tasks' = [Rest EXCEPT ![t] =
                                 Answer(tk, [status |-> 500,
                                             error |-> "Server error during login"])]
    /\ UNCHANGED <<cache, overlap, hist>>

\* Requests that change the record's fields or try to.
ProvBodies ==
    {[field |-> "resourceId", value |-> "r_other"],
     [field |-> "username", value |-> "n3"]}

\* A run starts with the admin a1 and its member u1, u1 being complete, or a
\* record from before provisioning existed, or one that lacks its
\* databaseUri and whose vectorStorePath was overridden.
InitProv ==
    /\ store \in
         { [i \in Ids \cup NewIds |->
               IF i = "a1"
               THEN UserRecord("a1", "admin", "", "n1", "e1", "r_a1", "vs_a1")
               ELSE IF i = "u1" THEN u ELSE NoUser(i)]
           : u \in { UserRecord("u1", "user", "a1", "n2", "e1", "r_u1", "vs_u1"),
                     UserRecord("u1", "user", "a1", "n2", "e1", "", ""),
                     [UserRecord("u1", "user", "a1", "n2", "e1", "r_u1", "vs_mine")
                        EXCEPT !.databaseUri = ""] } }
    /\ cache = [i \in DOMAIN store |-> NoCtx]
    /\ tasks = [t \in Tasks |-> IdleTask]
    /\ overlap = FALSE
    /\ hist = ColdHist

NextProv ==
    \/ \E t \in Tasks, n \in {"n1", "n3", Unsluggable}, e \in Emails :
          RegisterBegin(t, n, e)
    \/ \E t \in Tasks, c \in Ids, n \in {"n3", Unsluggable}, e \in {"e1", "e2"} :
          CreateBegin(t, c, n, e)
    \/ \E t \in Tasks : ProvisionStep(t)
    \/ \E t \in Tasks : SaveStep(t)
    \/ \E t \in Tasks, n \in {"n2", "n3", "n0"}, lt \in LoginTypes,
          pw \in {"pw_u1", "bad"} : LoginBegin(t, n, lt, pw)
    \/ \E t \in Tasks : LoginCompare(t)
    \/ \E t \in Tasks : LoginEnsure(t)
    \/ \E t \in Tasks, b \in ProvBodies : MeBegin(t, "u1", b)
    \/ \E t \in Tasks : MeWrite(t)
    \/ \E t \in Tasks : MeFinish(t)
    \/ \E t \in Tasks, b \in ProvBodies : UserBegin(t, "a1", "u1", b)
    \/ \E t \in Tasks : UserWrite(t)
    \/ \E t \in Tasks : UserFinish(t)

SpecProv == InitProv /\ [][NextProv]_vars

----------------------------------------------------------------------------
\* Gets against records that are not fully provisioned: the cache starts
\* empty, the member's record lacks resource fields or not, the job handlers
\* and getUserResources resolve contexts, and a login backfills the record.

InitGet ==
    /\ store \in
         { [i \in Ids |->
               IF i = "a1"
               THEN UserRecord("a1", "admin", "", "n1", "e1", "r_a1", "vs_a1")
               ELSE u]
           : u \in { UserRecord("u1", "user", "a1", "n2", "e1", "r_u1", "vs_u1"),
                     UserRecord("u1", "user", "a1", "n2", "e1", "", ""),
                     UserRecord("u1", "user", "a1", "n2", "e1", "r_u1", ""),
                     UserRecord("u1", "user", "a1", "n2", "e1", "", "vs_u1") } }
    /\ cache = [i \in Ids |-> NoCtx]
    /\ tasks = [t \in Tasks |-> IdleTask]
    /\ overlap = FALSE
    /\ hist = ColdHist

NextGet ==
    \/ \E t \in Tasks, k \in JobKinds, c \in Ids : JobBegin(t, k, c, "")
    \/ \E t \in Tasks : GetRead(t)
    \/ \E t \in Tasks : JobResolve(t)
    \/ \E t \in Tasks, o \in {"ok"} : JobEnd(t, o)
    \/ \E t \in Tasks, h \in {"success"} : SignalEnd(t, h)
    \/ \E t \in Tasks, id \in Ids : ResourcesBegin(t, id)
    \/ \E t \in Tasks : ResourcesResolve(t)
    \/ \E t \in Tasks, n \in {"n2"}, lt \in LoginTypes, pw \in {"pw_u1", "bad"} :
          LoginBegin(t, n, lt, pw)
    \/ \E t \in Tasks : LoginCompare(t)
    \/ \E t \in Tasks : LoginEnsure(t)

SpecGet == InitGet /\ [][NextGet]_vars

----------------------------------------------------------------------------
\* scripts/migrateUsersAdminId.js, run against a collection from before
\* adminId existed: records of role 'user' may have no adminId ("" here).

MigIds == {"a1", "a2", "u1", "u2"}

\* User.find({ $or: [{ role: 'admin' }, { adminId: { $exists: false } }] })
FindAdmins(s) ==
    {i \in DOMAIN s : s[i].exists /\ (s[i].role = "admin" \/ s[i].adminId = "")}

\* User.find({ role: 'user', adminId: { $exists: false } })
FindUsersWithoutAdmin(s) ==
    {i \in DOMAIN s : s[i].exists /\ s[i].role = "user" /\ s[i].adminId = ""}

\* The script ends: the connection is closed, or process.exit(1).
MigrateDone(tk, outcome) ==
    [tk EXCEPT !.pc = "done", !.resp = [status |-> outcome]]

\* The script starts, connects, and its first find returns.
MigrateStart(t) ==
    /\ MayStart(t)
    /\ Arrive
    /\ HistKept
    /\ tasks' = [Rest EXCEPT ![t] =
          [IdleTask EXCEPT !.kind = "migrate", !.pc = "found",
                           !.body = [admins |-> FindAdmins(store),
                                     orphans |-> {}, todo |-> {}]]]
    /\ UNCHANGED <<store, cache>>

\* The second find returns and the script branches on the two results; with
\* one admin it enters the loop and assigns the users one after the other.
MigrateFindUsers(t) ==
    /\ tasks[t].pc = "found"
    /\ tasks[t].kind = "migrate"
    /\ LET usersWithoutAdmin == FindUsersWithoutAdmin(store)
           admins == tasks[t].body.admins
           tk == [tasks[t] EXCEPT !.body.orphans = usersWithoutAdmin,
                                  !.body.todo = usersWithoutAdmin]
       IN  tasks' = [Rest EXCEPT ![t] =
             IF usersWithoutAdmin = {} THEN MigrateDone(tk, "nothing to migrate")
             ELSE IF Cardinality(admins) = 1
             THEN [tk EXCEPT !.pc = "assign",
                             !.target = CHOOSE a \in admins : TRUE]
             ELSE IF Cardinality(admins) = 0 THEN MigrateDone(tk, "no admin")
             ELSE MigrateDone(tk, "manual assignment required")]
    /\ UNCHANGED <<store, cache, overlap, hist>>

\* user.adminId = admin._id; await user.save(), for the next user of the
\* loop; a rejected save ends the script in its catch.
MigrateSave(t) ==
    /\ tasks[t].pc = "assign"
    /\ tasks[t].kind = "migrate"
    /\ \E u \in tasks[t].body.todo :
          LET tk == [tasks[t] EXCEPT !.body.todo = @ \ {u},
                                     !.steps = Append(@, "save")]
              after == [store EXCEPT ![u].adminId = tk.target]
          IN  IF UniqueIndexesHold(after)
              THEN /\ store' = after
                   /\ tasks' = [Rest EXCEPT ![t] =
                         IF tk.body.todo = {} THEN MigrateDone(tk, "migrated")
                         ELSE tk]
              ELSE /\ store' = store
                   /\ tasks' = [Rest EXCEPT ![t] = MigrateDone(tk, "failed")]
    /\ UNCHANGED <<cache, overlap, hist>>

\* A collection of up to two admins and up to two role='user' records, each
\* of these assigned to the admin a1 or to nobody.
InitMigrate ==
    /\ store \in
         { [i \in MigIds |->
               IF i = "a1" THEN r1 ELSE IF i = "a2" THEN r2
               ELSE IF i = "u1" THEN r3 ELSE r4]
           : r1 \in {NoUser("a1"),
                     UserRecord("a1", "admin", "", "n1", "e1", "r_a1", "vs_a1")},
             r2 \in {NoUser("a2"),
                     UserRecord("a2", "admin", "", "n4", "e2", "r_a2", "vs_a2")},
             r3 \in {NoUser("u1"),
                     UserRecord("u1", "user", "", "n2", "e1", "r_u1", "vs_u1"),
                     UserRecord("u1", "user", "a1", "n2", "e1", "r_u1", "vs_u1")},
             r4 \in {NoUser("u2"),
                     UserRecord("u2", "user", "", "n3", "e2", "r_u2", "vs_u2"),
                     UserRecord("u2", "user", "a1", "n3", "e2", "r_u2", "vs_u2")} }
    /\ cache = [i \in DOMAIN store |-> NoCtx]
    /\ tasks = [t \in Tasks |-> IdleTask]
    /\ overlap = FALSE
    /\ hist = ColdHist

NextMigrate ==
    \/ \E t \in {1} : MigrateStart(t)
    \/ \E t \in {1} : MigrateFindUsers(t)
    \/ \E t \in {1} : MigrateSave(t)

SpecMigrate == InitMigrate /\ [][NextMigrate]_vars

----------------------------------------------------------------------------
\* scripts/resolveDuplicateUsernames.js, run against a collection that has
\* no unique index on username yet.

ResIds == {"d1", "d2", "d3"}

\* createdAt of the records, as a rank.
CreatedAt == [i \in ResIds |-> IF i = "d1" THEN 1 ELSE IF i = "d2" THEN 2 ELSE 3]

\* The text of a number in a template literal.
RECURSIVE NumberText(_)
NumberText(n) ==
    IF n < 10 THEN Digit(n) ELSE NumberText(n \div 10) \o Digit(n % 10)

\* `${dup._id}_${index + 1}`
SuggestedUsername(username, index) == username \o "_" \o NumberText(index + 1)

\* The index of a record in its group once sorted by createdAt.
IndexInGroup(s, i) ==
    Cardinality({j \in DOMAIN s : /\ s[j].exists
                                  /\ s[j].username = s[i].username
                                  /\ CreatedAt[j] < CreatedAt[i]})

\* The aggregate's groups of more than one record, and the `updates` the
\* loop over them collects: every record of a group but its oldest.
SuggestedUpdates(s) ==
    {[userId |-> i, oldUsername |-> s[i].username,
      newUsername |-> SuggestedUsername(s[i].username, IndexInGroup(s, i))]
       : i \in {j \in DOMAIN s : s[j].exists /\ IndexInGroup(s, j) > 0}}

ResolveDone(tk, outcome) ==
    [tk EXCEPT !.pc = "done", !.resp = [status |-> outcome]]

\* The script starts, the aggregate returns, the conflicts are listed and,
\* with --auto-fix, the first updateOne is issued.
ResolveStart(t, AUTO_FIX) ==
    /\ MayStart(t)
    /\ Arrive
    /\ HistKept
    /\ LET updates == SuggestedUpdates(store)
           tk == [IdleTask EXCEPT !.kind = "resolve",
                                  !.body = [autoFix |-> AUTO_FIX,
                                            updates |-> updates,
                                            todo |-> updates]]
       IN  tasks' = [Rest EXCEPT ![t] =
             IF updates = {} THEN ResolveDone(tk, "no duplicates")
             ELSE IF AUTO_FIX THEN [tk EXCEPT !.pc = "fix"]
             ELSE ResolveDone(tk, "summary")]
    /\ UNCHANGED <<store, cache>>

\* collection.updateOne({ _id }, { $set: { username: newUsername } }) for the
\* next update; the updates write distinct records, so their order does not
\* show in the result.
ResolveUpdate(t) ==
    /\ tasks[t].pc = "fix"
    /\ tasks[t].kind = "resolve"
    /\ \E update \in tasks[t].body.todo :
          LET tk == [tasks[t] EXCEPT !.body.todo = @ \ {update},
                                     !.steps = Append(@, "update")]
          IN  /\ store' = [store EXCEPT ![update.userId].username =
                                           update.newUsername]
              /\ tasks' = [Rest EXCEPT ![t] =
                    IF tk.body.todo = {} THEN ResolveDone(tk, "auto-fix completed")
                    ELSE tk]
    /\ UNCHANGED <<cache, overlap, hist>>

\* The usernames of the run, one of them of the form the script suggests.
ResNames == {"bob", "bob_2", "amy"}

InitResolve ==
    /\ store \in
         { [i \in ResIds |->
               IF f[i] = "" THEN NoUser(i)
               ELSE UserRecord(i, "user", "a1", f[i], "e_" \o i, "", "")]
           : f \in [ResIds -> ResNames \cup {""}] }
    /\ cache = [i \in DOMAIN store |-> NoCtx]
    /\ tasks = [t \in Tasks |-> IdleTask]
    /\ overlap = FALSE
    /\ hist = ColdHist

NextResolve ==
    \/ \E t \in {1}, f \in BOOLEAN : ResolveStart(t, f)
    \/ \E t \in {1} : ResolveUpdate(t)

SpecResolve == InitResolve /\ [][NextResolve]_vars

----------------------------------------------------------------------------
\* The user-management handlers of an installation with two admins, each with
\* one member: requests of the admin a1 and of its member u1, one at a time.

OwnIds == {"a1", "a2", "u1", "u2"}

\* getUserById: findById, the two access checks, the response.
GetUserById(t, c, id) ==
    /\ MayStart(t)
    /\ Arrive
    /\ HistKept
    /\ LET tk == [IdleTask EXCEPT !.kind = "getUser", !.caller = c, !.target = id]
           role == TokenRole(c)
           user == store[id]
       IN  tasks' = [Rest EXCEPT ![t] =
             IF ~user.exists
             THEN Respond(tk, [status |-> 404, error |-> "User not found"])
             ELSE IF NotOwnedByAdmin(role, user, c) \/ (role = "user" /\ id # c)
             THEN Respond(tk, [status |-> 403, error |-> "Access denied"])
             ELSE Respond(tk, [status |-> 200, user |-> user])]
    /\ UNCHANGED <<store, cache>>

InitOwn ==
    /\ store =
         [i \in OwnIds |->
             IF i = "a1" THEN UserRecord("a1", "admin", "", "n1", "e1", "r_a1", "vs_a1")
             ELSE IF i = "a2"
             THEN UserRecord("a2", "admin", "", "n4", "e2", "r_a2", "vs_a2")
             ELSE IF i = "u1"
             THEN UserRecord("u1", "user", "a1", "n2", "e1", "r_u1", "vs_u1")
             ELSE UserRecord("u2", "user", "a2", "n3", "e1", "r_u2", "vs_u2")]
    /\ cache \in [OwnIds -> {NoCtx} \cup {BuildContext(store[i]) : i \in OwnIds}]
    /\ \A i \in OwnIds : cache[i] \in {NoCtx, BuildContext(store[i])}
    /\ tasks = [t \in Tasks |-> IdleTask]
    /\ overlap = FALSE
    /\ hist = ColdHist

NextOwn ==
    \/ \E t \in {1}, c \in {"a1", "u1"}, id \in OwnIds : GetUserById(t, c, id)
    \/ \E t \in {1}, c \in {"a1", "u1"}, id \in OwnIds, b \in EmailBodies :
          UserBegin(t, c, id, b)
    \/ \E t \in {1} : UserWrite(t)
    \/ \E t \in {1} : UserFinish(t)
    \/ \E t \in {1}, c \in {"a1", "u1"}, id \in OwnIds : DeleteBegin(t, c, id)
    \/ \E t \in {1} : DeleteWrite(t)
    \/ \E t \in {1} : DeleteFinish(t)

SpecOwn == InitOwn /\ [][NextOwn]_vars

----------------------------------------------------------------------------
\* Logins: the member is active or not, provisioned or not, and may be
\* deleted by its admin while a login is in flight.

Passwords == {"pw_a1", "pw_u1"}

InitLogin ==
    /\ store \in
         { [i \in Ids |->
               IF i = "a1"
               THEN UserRecord("a1", "admin", "", "n1", "e1", "r_a1", "vs_a1")
               ELSE u]
           : u \in { UserRecord("u1", "user", "a1", "n2", "e1", "r_u1", "vs_u1"),
                     [UserRecord("u1", "user", "a1", "n2", "e1", "r_u1", "vs_u1")
                        EXCEPT !.isActive = FALSE],
                     UserRecord("u1", "user", "a1", "n2", "e1", "", "") } }
    /\ cache = [i \in Ids |-> NoCtx]
    /\ tasks = [t \in Tasks |-> IdleTask]
    /\ overlap = FALSE
    /\ hist = ColdHist

NextLogin ==
    \/ \E t \in Tasks, n \in {"n1", "n2", "n0"}, lt \in LoginTypes \cup {""},
          pw \in Passwords : LoginBegin(t, n, lt, pw)
    \/ \E t \in Tasks : LoginCompare(t)
    \/ \E t \in Tasks : LoginEnsure(t)
    \/ \E t \in Tasks : DeleteBegin(t, "a1", "u1")
    \/ \E t \in Tasks : DeleteWrite(t)
    \/ \E t \in Tasks : DeleteFinish(t)

SpecLogin == InitLogin /\ [][NextLogin]_vars

----------------------------------------------------------------------------
\* Jobs whose requests may name a tenant and, for the updater, a mongoUri.

MongoUris == {"", "db_r_a1"}

NextTenant ==
    \/ \E t \in Tasks, k \in JobKinds, c \in Ids, tu \in Ids \cup {""},
          m \in MongoUris : JobBeginWith(t, k, c, tu, m)
    \/ \E t \in Tasks : GetRead(t)
    \/ \E t \in Tasks : JobResolve(t)
    \/ \E t \in Tasks, o \in {"ok", "fail"} : JobEnd(t, o)
    \/ \E t \in Tasks, h \in {"success", "timeout"} : SignalEnd(t, h)

SpecTenant == InitGet /\ [][NextTenant]_vars

----------------------------------------------------------------------------
\* Properties.

Did(tk, label) == \E i \in 1..Len(tk.steps) : tk.steps[i] = label

GetKinds == JobKinds \cup {"resources"}

MutatorKinds == {"updateMe", "updateUser", "deleteUser"}

\* No mutator has written `id` without having invalidated it yet.
NoPendingInvalidate(id) ==
    \A u \in Tasks : ~(tasks[u].pc = "fin" /\ tasks[u].target = id)

\* In this step request t arrives at a job handler, which is not refused.
JobArrives(t) ==
    /\ ~InFlight(t)
    /\ tasks'[t].pc \in {"reading", "running", "done"}
    /\ tasks'[t].kind \in JobKinds
    /\ tasks'[t].steps # <<"respond">>

\* In this step the get of request t returns to its handler.
GetReturns(t) ==
    /\ tasks[t].pc \in {"idle", "done", "fetched"}
    /\ tasks'[t].pc \in {"running", "done"}
    /\ tasks'[t].kind \in GetKinds
    /\ tasks'[t].steps # <<"respond">>

\* C1: once the invalidate of every mutator that wrote an identity has
\* completed, a get(identity, forceRefresh=false) that starts returns a context
\* equal to the record as it is in the store.  Stated for the gets that return
\* at once, where "the record as it is in the store" is the record of the
\* state the get starts in.
C1_GetNeverContradictsLatestWrite ==
    [][\A t \in Tasks :
          (/\ JobArrives(t)
           /\ tasks'[t].pc # "reading"
           /\ NoPendingInvalidate(tasks'[t].target))
          => /\ store[tasks'[t].target].exists
             /\ tasks'[t].ctx = BuildContext(store[tasks'[t].target])]_vars

\* C2: in a run without overlapping requests, when a get returned the context
\* of an identity, then a mutator wrote the record and invalidated it, the
\* next get of that identity reads the store, and returns the context built
\* from the record as written (or fails, the record having been deleted).
C2_SequentialRereadAfterInvalidate ==
    [][\A t \in Tasks :
          (/\ GetReturns(t)
           /\ ~overlap'
           /\ hist[tasks'[t].target] = "written")
          => /\ Did(tasks'[t], "read")
             /\ IF store[tasks'[t].target].exists
                THEN tasks'[t].ctx = BuildContext(store[tasks'[t].target])
                ELSE tasks'[t].resp.status = 404]_vars

C2_Witness ==
    /\ ~overlap
    /\ \E t \in Tasks :
          /\ tasks[t].kind \in JobKinds
          /\ hist[tasks[t].target] = "reread"
          /\ tasks[t].pc = "running"
          /\ Did(tasks[t], "read")
          /\ tasks[t].ctx = BuildContext(store[tasks[t].target])

\* C3: a get(identity, forceRefresh=false) that finds an entry returns that
\* entry unchanged and reads nothing: the handler goes on with the entry in
\* the step it arrives in, the cache and the store are left as they were, and
\* a request served from the cache never reads the store later.
C3_HitReturnsEntryWithoutRead ==
    /\ [][\A t \in Tasks :
            (JobArrives(t) /\ cache[tasks'[t].target] # NoCtx)
            => /\ tasks'[t].ctx = cache[tasks'[t].target]
               /\ tasks'[t].pc # "reading"
               /\ ~Did(tasks'[t], "read")
               /\ cache' = cache
               /\ store' = store]_vars
    /\ [](\A t \in Tasks : Did(tasks[t], "hit") => ~Did(tasks[t], "read"))

C3_Witness ==
    \E t \in Tasks :
        /\ tasks[t].kind \in JobKinds
        /\ tasks[t].pc = "signalling"
        /\ tasks[t].steps[1] = "hit"
        /\ tasks[t].ctx = cache[tasks[t].target]

\* C4: get(identity, forceRefresh=true) always reads the store, also when the
\* cache holds an entry for the identity, and the context it returns and
\* stores in place of the entry is built from the record that read gave.
C4_ForceRefreshAlwaysReads ==
    /\ [][\A t \in Tasks :
            /\ (~InFlight(t) /\ tasks'[t].kind = "resources"
                /\ tasks'[t].pc \in {"reading", "done"})
               => tasks'[t].pc = "reading"
            /\ (tasks[t].pc = "fetched" /\ tasks[t].kind = "resources"
                /\ tasks'[t].pc = "done" /\ tasks'[t].resp.status = 200)
               => /\ tasks'[t].resp.tenant = BuildContext(tasks[t].snap)
                  /\ cache'[tasks[t].target] = BuildContext(tasks[t].snap)]_vars
    /\ [](\A t \in Tasks :
            (tasks[t].kind = "resources" /\ tasks[t].pc = "done")
            => Did(tasks[t], "read"))

C4_Witness ==
    \E t \in Tasks :
        /\ tasks[t].kind = "resources"
        /\ tasks[t].pc = "done"
        /\ tasks[t].resp.status = 200
        /\ tasks[t].steps = <<"bypass", "read", "respond">>
        /\ cache[tasks[t].target] = tasks[t].resp.tenant

\* C5: updateMe, updateUser and deleteUser invalidate the identity they wrote
\* after the write and before the response: a write that succeeded leaves the
\* handler before its invalidate, the success response is sent only from
\* there, and in the step that sends it the entry of the identity is removed.
C5_MutatorsInvalidateBeforeResponding ==
    [][\A t \in Tasks :
          /\ (tasks[t].pc = "write" /\ tasks'[t] # tasks[t] /\ store' # store)
             => tasks'[t].pc = "fin"
          /\ (tasks'[t].kind \in MutatorKinds /\ tasks'[t].pc = "done"
              /\ tasks'[t].resp.status = 200)
             => /\ tasks[t].pc = "fin"
                /\ cache'[tasks'[t].target] = NoCtx
          /\ (tasks[t].pc = "fin" /\ tasks'[t].pc # "fin")
             => /\ tasks'[t].pc = "done"
                /\ cache'[tasks[t].target] = NoCtx]_vars

C5_Witness ==
    /\ ~overlap
    /\ \E t \in Tasks :
          /\ tasks[t].kind = "updateUser"
          /\ tasks[t].pc = "done"
          /\ tasks[t].resp.status = 200
          /\ hist[tasks[t].target] = "written"
          /\ cache[tasks[t].target] = NoCtx

\* A request to a job handler that has resolved a context.
JobWithContext(t) == tasks[t].kind \in JobKinds /\ Did(tasks[t], "context")

Incomplete(context) == context.vectorStorePath = "" \/ context.resourceId = ""

\* C6: a job request whose resolved context has an empty vectorStorePath or an
\* empty resourceId has ended with the error response of the guard (503), and
\* has neither launched the job nor sent the signal.
C6_IncompleteContextNeverDispatched ==
    \A t \in Tasks :
        (JobWithContext(t) /\ Incomplete(tasks[t].ctx))
        => /\ tasks[t].pc = "done"
           /\ tasks[t].resp.success = FALSE
           /\ tasks[t].resp.status = 503
           /\ ~Did(tasks[t], "launch")
           /\ ~Did(tasks[t], "signal")
           /\ tasks[t].job = ""
           /\ tasks[t].http = ""

C6_Witness ==
    \E t \in Tasks :
        /\ JobWithContext(t)
        /\ tasks[t].ctx.vectorStorePath = ""
        /\ tasks[t].ctx.resourceId # ""
        /\ tasks[t].pc = "done"
        /\ tasks[t].resp.status = 503

\* C7: the response to a job request whose job succeeded has success TRUE
\* whatever the outcome of the signal, its cacheRefreshed is TRUE exactly when
\* the bot service answered "success", and its summary is the job's.
C7_SignalFailureIsolated ==
    \A t \in Tasks :
        (tasks[t].kind \in JobKinds /\ tasks[t].pc = "done" /\ tasks[t].job = "ok")
        => /\ tasks[t].resp.status = 200
           /\ tasks[t].resp.success = TRUE
           /\ tasks[t].resp.cacheRefreshed = (tasks[t].http = "success")
           /\ tasks[t].resp.summary = JobSummary("ok")

C7_Witness ==
    \E t \in Tasks :
        /\ tasks[t].kind \in JobKinds
        /\ tasks[t].pc = "done"
        /\ tasks[t].job = "ok"
        /\ tasks[t].http = "refused"
        /\ tasks[t].resp.success = TRUE
        /\ tasks[t].resp.cacheRefreshed = FALSE

\* C8: for every outcome of the POST refreshBotCache returns a value and does
\* not throw; the value has success TRUE exactly when the bot service answered
\* with status "success", and otherwise success FALSE and an error text; the
\* handler that called it does not end in its catch.
C8_RefreshBotCacheNeverRaises ==
    \A t \in Tasks :
        tasks[t].http # ""
        => /\ ~tasks[t].sig.raised
           /\ tasks[t].sig.success = (tasks[t].http = "success")
           /\ (~tasks[t].sig.success => tasks[t].sig.error # "")
           /\ "error" \notin DOMAIN tasks[t].resp

C8_Witness ==
    \E t \in Tasks :
        /\ tasks[t].http = "timeout"
        /\ tasks[t].sig = [raised |-> FALSE, success |-> FALSE, error |-> "timeout"]

\* The orders in which a job request can take its steps.
Resolved == { <<"hit", "context">>, <<"miss", "read", "context">> }

JobPaths ==
    { <<"respond">>, <<"miss", "read", "respond">> }
    \cup { g \o <<"ensure", "respond">> : g \in Resolved }
    \cup { g \o <<"ensure", "launch", "jobdone", "respond">> : g \in Resolved }
    \cup { g \o <<"ensure", "launch", "jobdone", "signal", "respond">> :
             g \in Resolved }

IsPrefix(s, p) == Len(s) <= Len(p) /\ s = SubSeq(p, 1, Len(s))

\* C9: a job request takes its steps in the order context resolution, guard,
\* job, signal, response; the signal is sent only when the job has ended with
\* success, never after a failed job or a failed guard.
C9_StepsInOrder ==
    \A t \in Tasks :
        tasks[t].kind \in JobKinds
        => /\ \E p \in JobPaths : IsPrefix(tasks[t].steps, p)
           /\ Did(tasks[t], "signal")
              => /\ tasks[t].job = "ok"
                 /\ ~Incomplete(tasks[t].ctx)
           /\ tasks[t].http # "" => Did(tasks[t], "signal")

C9_Witness ==
    \E t \in Tasks :
        /\ tasks[t].kind \in JobKinds
        /\ tasks[t].steps = <<"miss", "read", "context", "ensure", "launch",
                              "jobdone", "signal", "respond">>

\* C10 as stated: every response to a job request carries both success and
\* cacheRefreshed.
C10_EveryResponseCarriesBothFields ==
    \A t \in Tasks :
        (tasks[t].kind \in JobKinds /\ tasks[t].pc = "done")
        => {"success", "cacheRefreshed"} \subseteq DOMAIN tasks[t].resp

\* C10: every response to a job request carries success; the response on the
\* success path carries cacheRefreshed as well, a Boolean of its own, and the
\* responses on the failure paths carry success FALSE with an error and no
\* cacheRefreshed, no signal having been sent for them.
C10_SuccessResponsesCarryBothFields ==
    \A t \in Tasks :
        (tasks[t].kind \in JobKinds /\ tasks[t].pc = "done")
        => /\ "success" \in DOMAIN tasks[t].resp
           /\ IF tasks[t].resp.success
              THEN /\ "cacheRefreshed" \in DOMAIN tasks[t].resp
                   /\ tasks[t].resp.cacheRefreshed \in BOOLEAN
                   /\ tasks[t].resp.cacheRefreshed = tasks[t].sig.success
              ELSE /\ "cacheRefreshed" \notin DOMAIN tasks[t].resp
                   /\ "error" \in DOMAIN tasks[t].resp
                   /\ ~Did(tasks[t], "signal")

C10_Witness ==
    \E t \in Tasks :
        /\ tasks[t].kind \in JobKinds
        /\ tasks[t].pc = "done"
        /\ tasks[t].job = "failPartial"
        /\ tasks[t].resp.success = FALSE
        /\ "cacheRefreshed" \notin DOMAIN tasks[t].resp

FailedJob(t) ==
    /\ tasks[t].kind \in JobKinds
    /\ tasks[t].pc = "done"
    /\ tasks[t].job \in {"fail", "failPartial"}

\* C11: the response to a request whose job process failed has success FALSE
\* and carries the diagnostics captured for the job: its partial summary and
\* the stdout and stderr the process wrote.
C11_FailedJobCarriesDiagnostics ==
    \A t \in Tasks :
        FailedJob(t)
        => /\ tasks[t].resp.success = FALSE
           /\ tasks[t].resp.summary = JobSummary(tasks[t].job)
           /\ {"stdout", "stderr"} \subseteq DOMAIN tasks[t].resp
           /\ tasks[t].resp.stdout = truncateLog(tasks[t].stdout)
           /\ tasks[t].resp.stderr = truncateLog(tasks[t].stderr)

Count(tk, label) == Cardinality({i \in 1..Len(tk.steps) : tk.steps[i] = label})

\* C12: a job request launches the job process at most once and issues the
\* stale-index signal at most once, whether they succeed or fail: a request
\* whose job failed is answered after its one launch, and a request whose
\* signal failed is answered after its one signal.
C12_NoRetry ==
    \A t \in Tasks :
        tasks[t].kind \in JobKinds
        => /\ Count(tasks[t], "launch") <= 1
           /\ Count(tasks[t], "jobdone") <= 1
           /\ Count(tasks[t], "signal") <= 1
           /\ tasks[t].job # "" => Count(tasks[t], "launch") = 1
           /\ tasks[t].job \in {"fail", "failPartial"} => tasks[t].pc = "done"
           /\ tasks[t].http # "" => tasks[t].pc = "done"

C12_Witness ==
    \E t \in Tasks :
        /\ tasks[t].kind \in JobKinds
        /\ tasks[t].pc = "done"
        /\ tasks[t].http = "timeout"
        /\ Count(tasks[t], "launch") = 1
        /\ Count(tasks[t], "signal") = 1

MarkerHead ==
    <<"\n", ".", ".", ".", " ", "[", "t", "r", "u", "n", "c", "a", "t", "e", "d", " ">>

MarkerTail == <<" ", "c", "h", "a", "r", "s", "]">>

\* The number a sequence of decimal digits denotes, -1 if it is none.
RECURSIVE ValueOf(_)
ValueOf(ds) ==
    IF ds = <<>> THEN -1
    ELSE LET last == ds[Len(ds)]
             d == IF \E k \in 0..9 : Digit(k) = last
                  THEN CHOOSE k \in 0..9 : Digit(k) = last
                  ELSE -1
             rest == SubSeq(ds, 1, Len(ds) - 1)
         IN  IF d = -1 THEN -1
             ELSE IF rest = <<>> THEN d
             ELSE IF ValueOf(rest) = -1 THEN -1
             ELSE 10 * ValueOf(rest) + d

\* r is what the claim says truncateLog returns for v.
TruncatedAsStated(v, r) ==
    IF ~v.present \/ Len(v.chars) = 0 THEN r = v
    ELSE IF Len(v.chars) <= 8192 THEN r = v
    ELSE /\ r.present
         /\ Len(r.chars) >= 8192 + Len(MarkerHead) + 1 + Len(MarkerTail)
         /\ SubSeq(r.chars, 1, 8192) = SubSeq(v.chars, 1, 8192)
         /\ SubSeq(r.chars, 8193, 8192 + Len(MarkerHead)) = MarkerHead
         /\ SubSeq(r.chars, Len(r.chars) - Len(MarkerTail) + 1, Len(r.chars))
              = MarkerTail
         /\ ValueOf(SubSeq(r.chars, 8193 + Len(MarkerHead),
                           Len(r.chars) - Len(MarkerTail)))
              = Len(v.chars) - 8192

\* C13: truncateLog returns a stream of at most 8192 characters unchanged, an
\* absent or empty stream as it is, and for a stream of L > 8192 characters
\* its first 8192 characters followed by the marker that states L - 8192;
\* seen on the stdout and stderr of the success response.
C13_TruncateLog ==
    \A t \in Tasks :
        (tasks[t].kind \in JobKinds /\ tasks[t].pc = "done"
         /\ tasks[t].resp.status = 200)
        => /\ TruncatedAsStated(tasks[t].stdout, tasks[t].resp.stdout)
           /\ TruncatedAsStated(tasks[t].stderr, tasks[t].resp.stderr)

C13_Witness ==
    \E t \in Tasks :
        /\ tasks[t].pc = "done"
        /\ tasks[t].resp.status = 200
        /\ Len(tasks[t].stdout.chars) = 8192 + 11
        /\ Len(tasks[t].resp.stdout.chars) = 8192 + 16 + 2 + 7
        /\ tasks[t].stderr = NoStream
        /\ tasks[t].resp.stderr = NoStream

\* C14: a record that has a resourceId keeps it: no step of registerUser,
\* createUser, loginUser (with the backfill of ensureUserResources), updateMe
\* or updateUser changes the resourceId of a record that had one.
C14_ResourceIdImmutable ==
    [][\A id \in DOMAIN store :
          (store[id].exists /\ store[id].resourceId # "" /\ store'[id].exists)
          => store'[id].resourceId = store[id].resourceId]_vars

C14_Witness ==
    \E t \in Tasks :
        /\ tasks[t].kind = "updateUser"
        /\ tasks[t].pc = "fin"
        /\ tasks[t].body.field = "resourceId"
        /\ store[tasks[t].target].resourceId = "r_u1"

ResourcePaths == {"resourceId", "vectorStorePath", "databaseUri"}

LoginAnswered(t) ==
    /\ tasks[t].kind = "login"
    /\ tasks[t].pc = "done"
    /\ tasks[t].resp.status = 200

\* C16: ensureUserResources only fills what is absent: every resource field
\* the record had has the same value afterwards, the other fields of the
\* record are untouched, a complete record is left as it was, and applying it
\* again to its result changes nothing.
C16_EnsureOnlyFillsAbsent ==
    \A t \in Tasks :
        LoginAnswered(t)
        => LET was == tasks[t].resp.before
               now == tasks[t].resp.user
           IN  /\ store[tasks[t].target] = now
               /\ \A f \in DOMAIN was :
                     (f \notin ResourcePaths \/ was[f] # "") => now[f] = was[f]
               /\ \A f \in ResourcePaths : now[f] # ""
               /\ \A rid \in Rids : ensureUserResources(now, rid) = now

C16_Witness ==
    \E t \in Tasks :
        /\ LoginAnswered(t)
        /\ tasks[t].resp.before.vectorStorePath = "vs_mine"
        /\ tasks[t].resp.before.databaseUri = ""
        /\ tasks[t].resp.user.vectorStorePath = "vs_mine"
        /\ tasks[t].resp.user.databaseUri = "db_r_u1"

CreatorKinds == {"register", "create"}

\* C17: when provisioning fails in registerUser or createUser the request is
\* answered with an error and no record is persisted for the new tenant; and a
\* record these handlers persist carries the resource fields the one
\* provisioning call of its request returned before the save.
C17_ProvisioningFailurePersistsNothing ==
    /\ [](\A t \in Tasks :
            (tasks[t].kind \in CreatorKinds /\ tasks[t].pc = "done"
             /\ tasks[t].resp.status = 500)
            => /\ store[tasks[t].target] = NoUser(tasks[t].target)
               /\ ~Did(tasks[t], "save"))
    /\ [][\A id \in NewIds :
            store'[id] # store[id]
            => \E t \in Tasks :
                  /\ tasks[t].kind \in CreatorKinds
                  /\ tasks[t].pc = "save"
                  /\ tasks[t].target = id
                  /\ Count(tasks[t], "provision") = 1
                  /\ store'[id] = tasks[t].snap
                  /\ \E rid \in Rids :
                        \A f \in ResourcePaths :
                            store'[id][f] = ResourceFields(rid)[f]]_vars

C17_Witness ==
    \E t \in Tasks :
        /\ tasks[t].kind = "create"
        /\ tasks[t].pc = "done"
        /\ tasks[t].resp.status = 500
        /\ tasks[t].steps = <<"provision", "respond">>
        /\ store[tasks[t].target] = NoUser(tasks[t].target)

Provisioned(context) == context.resourceId # "" /\ context.vectorStorePath # ""

\* C18: a get that read a record without resourceId or without
\* vectorStorePath is answered ResourceIncomplete (503) and leaves the cache as
\* it was; every entry of the cache and every context a get returned has a
\* resourceId and a vectorStorePath.
C18_IncompleteRecordNeverCached ==
    /\ [](\A id \in DOMAIN cache : cache[id] # NoCtx => Provisioned(cache[id]))
    /\ [](\A t \in Tasks : tasks[t].ctx # NoCtx => Provisioned(tasks[t].ctx))
    /\ [][\A t \in Tasks :
            (/\ tasks[t].pc = "fetched"
             /\ tasks[t].snap.exists
             /\ tasks[t].snap.resourceId = "" \/ tasks[t].snap.vectorStorePath = ""
             /\ tasks'[t] # tasks[t])
            => /\ tasks'[t].pc = "done"
               /\ tasks'[t].resp.status = 503
               /\ tasks'[t].resp.error = "ResourceIncomplete"
               /\ tasks'[t].ctx = NoCtx
               /\ cache' = cache]_vars

C18_Witness ==
    \E t \in Tasks :
        /\ tasks[t].kind \in JobKinds
        /\ tasks[t].pc = "done"
        /\ tasks[t].resp.status = 503
        /\ tasks[t].steps = <<"miss", "read", "respond">>
        /\ store[tasks[t].target].resourceId # ""
        /\ store[tasks[t].target].vectorStorePath = ""
        /\ cache[tasks[t].target] = NoCtx

\* C19: once deleteUser has removed a record and invalidated its identity, a
\* get of that identity that starts returns no context and no job is launched
\* for it.
C19_NoContextAfterDelete ==
    [][\A t \in Tasks :
          (/\ JobArrives(t)
           /\ ~store[tasks'[t].target].exists
           /\ NoPendingInvalidate(tasks'[t].target))
          => /\ tasks'[t].ctx = NoCtx
             /\ ~Did(tasks'[t], "launch")]_vars

\* Request t has populated the cache after a miss and is running its job.
Populated(t) ==
    /\ tasks[t].kind \in JobKinds
    /\ tasks[t].pc \in {"running", "signalling"}
    /\ tasks[t].steps[1] = "miss"

JobIdOf(t) == buildJobId(tasks[t].kind, tasks[t].ctx.resourceId, t)

\* In this step request t passes from context resolution to the guard.
ReachesGuard(t) ==
    /\ tasks[t].pc \in {"idle", "done", "fetched"}
    /\ tasks'[t] # tasks[t]
    /\ tasks'[t].kind \in JobKinds
    /\ Did(tasks'[t], "ensure")

\* C21: job dispatch is not guarded per tenant: every request whose context
\* passes ensureTenantResources launches its job, whatever jobs are running,
\* so two requests for one resourceId can run at the same time.
C21_DispatchUnguarded ==
    [][\A t \in Tasks :
          (ReachesGuard(t) /\ ~Incomplete(tasks'[t].ctx))
          => /\ tasks'[t].pc = "running"
             /\ Did(tasks'[t], "launch")]_vars

C21_Witness ==
    \E t, u \in Tasks :
        /\ t # u
        /\ tasks[t].kind = "scrape" /\ tasks[t].pc = "running"
        /\ tasks[u].kind = "scrape" /\ tasks[u].pc = "running"
        /\ tasks[t].ctx.resourceId = tasks[u].ctx.resourceId
        /\ JobIdOf(t) # JobIdOf(u)

\* C22: in every reachable state, whatever the interleaving of registerUser,
\* createUser, updateMe and updateUser, no two user records share a username.
C22_UsernamesUnique ==
    \A i, j \in DOMAIN store :
        (i # j /\ store[i].exists /\ store[j].exists)
        => store[i].username # store[j].username

\* A registration passed its username query, the member was renamed to the
\* same username meanwhile, and the save was rejected by the index.
C22_Witness ==
    /\ store["u1"].username = "n3"
    /\ \E t \in Tasks :
          /\ tasks[t].kind = "register"
          /\ tasks[t].pc = "done"
          /\ Did(tasks[t], "save")
          /\ tasks[t].resp.status = 400
          /\ tasks[t].resp.field = "username"

\* The accounts of role 'admin'.
AdminAccounts == {i \in DOMAIN store : store[i].exists /\ store[i].role = "admin"}

\* C23: when the collection holds exactly one admin account and the script
\* found one or more role='user' records without adminId, then once the
\* script has ended each of these records has that admin's id as adminId.
C23_MigrateAssignsOrphans ==
    \A t \in Tasks :
        (/\ tasks[t].kind = "migrate"
         /\ tasks[t].pc = "done"
         /\ Cardinality(AdminAccounts) = 1
         /\ tasks[t].body.orphans # {})
        => \A u \in tasks[t].body.orphans : store[u].adminId \in AdminAccounts

\* C24: once resolveDuplicates has completed with --auto-fix, no two user
\* records share a username, whatever the records were at its start.
C24_NoDuplicatesAfterAutoFix ==
    \A t \in Tasks :
        (/\ tasks[t].kind = "resolve"
         /\ tasks[t].pc = "done"
         /\ tasks[t].body.autoFix)
        => \A i, j \in DOMAIN store :
              (i # j /\ store[i].exists /\ store[j].exists)
              => store[i].username # store[j].username

UserAdminKinds == {"getUser", "updateUser", "deleteUser"}

\* The request of slot t was let through: it is about to write, has written,
\* or was answered 200.
LetThrough(t) ==
    \/ tasks[t].pc \in {"write", "fin"}
    \/ tasks[t].pc = "done" /\ tasks[t].resp.status = 200

\* C25: a getUserById, updateUser or deleteUser request of an admin for
\* another account is let through only when the target's adminId is the
\* admin's id; members of other admins and other admin accounts are refused.
C25_AdminsOnlyTouchOwnUsers ==
    \A t \in Tasks :
        (/\ tasks[t].kind \in UserAdminKinds
         /\ TokenRole(tasks[t].caller) = "admin"
         /\ tasks[t].target # tasks[t].caller
         /\ LetThrough(t))
        => store[tasks[t].target].adminId = tasks[t].caller

\* The login of slot t has been answered.
LoginDone(t) == tasks[t].kind = "login" /\ tasks[t].pc = "done"

\* The password of the request is the password of no account, present or
\* deleted, that has the request's username.
WrongPassword(t) ==
    \A j \in DOMAIN store :
        store[j].username = tasks[t].body.username
        => tasks[t].body.password # PasswordOf(store[j])

\* C26: a login whose password does not match is answered 401 'Invalid
\* username or password' whether the username exists or not, whatever the
\* account's role, the loginType and the account's active state.
C26_NoUsernameEnumeration ==
    \A t \in Tasks :
        (LoginDone(t) /\ WrongPassword(t))
        => tasks[t].resp = [status |-> 401,
                            error |-> "Invalid username or password"]

IndexRejects(t) ==
    /\ tasks'[t].pc = "done"
    /\ \/ /\ tasks[t].kind \in {"updateMe", "updateUser"}
          /\ tasks[t].pc = "write"
          /\ WriteResult(store, tasks[t].target, tasks[t].body) = "dup"
       \/ /\ tasks[t].kind \in {"register", "create"}
          /\ tasks[t].pc = "save"
          /\ DupFields(store, tasks[t].snap) \cap {"username", "email"} # {}

\* C28: when only the unique index detects a duplicate username or email,
\* because a concurrent request won the race, registerUser, createUser,
\* updateMe and updateUser answer 400 naming the field and leave the records
\* unchanged.
C28_DuplicateAnswered400 ==
    [][\A t \in Tasks :
          IndexRejects(t)
          => /\ tasks'[t].resp.status = 400
             /\ "field" \in DOMAIN tasks'[t].resp
             /\ store' = store]_vars

\* The job request of slot t comes from a role='user' account.
UserJob(t) ==
    /\ tasks[t].kind \in JobKinds
    /\ tasks[t].pc # "idle"
    /\ TokenRole(tasks[t].caller) = "user"

\* C29: for a startScrape or runUpdater request of a role='user' account,
\* a request that targets another identity is answered 403 before anything
\* is resolved, and the context resolved, the job launched and the signal
\* sent are those of the requester: the job's options name the requester's
\* identity, index path and database.
C29_UsersRunJobsOnOwnDataOnly ==
    \A t \in Tasks :
        UserJob(t) =>
            /\ tasks[t].target # tasks[t].caller
               => /\ tasks[t].pc = "done"
                  /\ tasks[t].resp = JobDenied
                  /\ tasks[t].steps = <<"respond">>
                  /\ tasks[t].ctx = NoCtx
            /\ tasks[t].ctx # NoCtx => tasks[t].ctx.userId = tasks[t].caller
            /\ Did(tasks[t], "launch")
               => /\ tasks[t].opts.userId = tasks[t].caller
                  /\ tasks[t].opts.resourceId = tasks[t].ctx.resourceId
                  /\ tasks[t].opts.vectorStorePath = tasks[t].ctx.vectorStorePath
                  /\ tasks[t].opts.mongoUri \in {"", tasks[t].ctx.databaseUri}

\* C30: every startScrape or runUpdater request is eventually answered once
\* its job process terminates, and on every path the request is answered
\* exactly once: no response while it is in flight, one when it is done.
C30_AnsweredExactlyOnce ==
    /\ \A t \in Tasks :
          (tasks[t].kind \in JobKinds /\ InFlight(t)) ~> (tasks[t].pc = "done")
    /\ [](\A t \in Tasks :
            tasks[t].kind \in JobKinds =>
               /\ InFlight(t) => Count(tasks[t], "respond") = 0
               /\ tasks[t].pc = "done" =>
                     /\ Count(tasks[t], "respond") = 1
                     /\ tasks[t].resp # NoResp)

\* A request whose job succeeded and whose signal failed has been answered.
C30_Witness ==
    \E t \in Tasks :
        /\ tasks[t].kind \in JobKinds
        /\ tasks[t].pc = "done"
        /\ Did(tasks[t], "jobdone")
        /\ tasks[t].http = "timeout"
        /\ Count(tasks[t], "respond") = 1

====
